---- MODULE Spec2Model ----
(***************************************************************************)
(* A model of EmoteFetcher (src/src/struct/EmoteFetcher.js): the global    *)
(* emote index, the channel table, the four provider adapters, the four    *)
(* fetch operations and fromObject; and of rendering: the Twitch CDN link  *)
(* and the templates of src/src/util/Constants.js, Emote.toLink and        *)
(* EmoteParser.parse.                                                      *)
(*                                                                         *)
(* Collections (JavaScript Maps) live in a heap, `colls`, addressed by     *)
(* reference, so that "the same Collection" and "a fresh Collection" are   *)
(* different things. A Collection is a function from its keys to its       *)
(* values; insertion order is not modelled. Every Emote instance carries a *)
(* unique `inst` number: reference equality is equality of records.        *)
(*                                                                         *)
(* An async function runs to its first await in the step that calls it     *)
(* and hands back a pending promise; the rest runs, without interruption,  *)
(* in the step in which the awaited promise settles.                       *)
(***************************************************************************)
EXTENDS Integers, Sequences, FiniteSets, TLC

VARIABLES
    apiClient,            \* this.apiClient is set (constructor, lines 22-31)
    colls,                \* heap of Collections: reference -> (key -> value)
    channels,             \* this.channels: channel id -> [emotes: ref, format]
    ffzModifiersFetched,  \* this.ffzModifiersFetched
    nextInst,             \* number of the next Emote instance to be constructed
    calls,                \* the calls made so far, each with its promise
    last,                 \* what the most recent handler run did
    rendered              \* the string most recently built by toLink or parse

vars == <<apiClient, colls, channels, ffzModifiersFetched, nextInst, calls, last, rendered>>

----------------------------------------------------------------------------
(* Bounds and input domains *)

MaxCalls == 2       \* calls made on one fetcher
MaxLen == 2         \* raw emotes in one provider payload
MaxObj == 3         \* descriptors in one fromObject list

Codes == {"a", "b"}

\* `!id` (lines 92, 109, 151, 187, 262)
Falsy(v) == v \in {"null", "undefined", "", "0"}

\* A default parameter `x = d` replaces undefined only (lines 70, 218, 241, 259, 294)
Default(v, d) == IF v = "undefined" THEN d ELSE v

----------------------------------------------------------------------------
(* Collections *)

EmotesRef == 0      \* the reference of this.emotes

EmptyColl == [k \in {} |-> 0]

\* Map.prototype.set on a bare mapping
MapSet(m, k, v) == [x \in (DOMAIN m) \cup {k} |-> IF x = k THEN v ELSE m[x]]

Keys(m) == DOMAIN m

\* The heap state threaded through one handler run: `log` lists the
\* Collection.set calls of the run, in order.
Heap(c, ch, ni, lg) == [colls |-> c, channels |-> ch, nextInst |-> ni, log |-> lg]

\* new Collection(): the new reference is Len(h.colls) before the call
NewRef(h) == Len(h.colls)

NewCollection(h) == [h EXCEPT !.colls = Append(@, EmptyColl)]

\* Heap references start at 0, sequences at 1.
Deref(c, ref) == c[ref + 1]

\* collection.set that never overwrites: a key already present is kept and
\* the value is added under a further key
CollectionSetAppend(h, ref, key, value) == [h EXCEPT !.colls[ref + 1] = MapSet(@, IF key \in DOMAIN @ THEN key \o "'" ELSE key, value), !.log = Append(@, <<ref, key>>)]

\* collection.set(key, value)
CollectionSet(h, ref, key, value) == [h EXCEPT !.colls[ref + 1] = MapSet(@, key, value), !.log = Append(@, <<ref, key>>)]

----------------------------------------------------------------------------
(* Channels and emotes *)

\* An absent emote argument (existing_emote = null)
NullEmote == [inst |-> 0, code |-> "", id |-> 0, type |-> "", channel |-> ""]

\* new Channel(fetcher, id): an empty emotes Collection, no format yet
NewChannel(h, channel_id) == [NewCollection(h) EXCEPT !.channels = MapSet(@, channel_id, [emotes |-> NewRef(h), format |-> "undefined"])]

\* _setupChannel without the lookup: a new Channel on every call
_setupChannelAlwaysNew(h, channel_id, format) ==
    LET h1 == NewChannel(h, channel_id)
    IN  IF ~Falsy(Default(format, "null"))
        THEN [h1 EXCEPT !.channels[channel_id].format = format]
        ELSE h1

\* _setupChannel(channel_id, format = null)
_setupChannel(h, channel_id, format) ==
    LET h1 == IF channel_id \in DOMAIN h.channels THEN h ELSE NewChannel(h, channel_id)
    IN  IF ~Falsy(Default(format, "null"))
        THEN [h1 EXCEPT !.channels[channel_id].format = format]
        ELSE h1

\* new XEmote(channel, id, data): a new instance whose code is the data's code
NewEmote(h, type, channel_id, id, data) == [inst |-> h.nextInst, code |-> data.code, id |-> id, type |-> type, channel |-> channel_id]

\* The cache body without `this.emotes.set(emote.code, emote)`
CacheEmoteChannelOnly(h, type, channel_id, format, data, existing_emote) ==
    LET h1 == _setupChannel(h, channel_id, format)
    IN  IF existing_emote = NullEmote /\ data.isNull
        THEN [h |-> h1, emote |-> NullEmote, threw |-> TRUE]
        ELSE LET emote == IF existing_emote # NullEmote THEN existing_emote ELSE NewEmote(h1, type, channel_id, data.id, data)
                 h2 == IF existing_emote # NullEmote THEN h1 ELSE [h1 EXCEPT !.nextInst = @ + 1]
                 h4 == CollectionSet(h2, h2.channels[channel_id].emotes, emote.code, emote)
             IN  [h |-> h4, emote |-> emote, threw |-> FALSE]

\* The cache body that keeps the global entry of a code already cached
CacheEmoteFirstWins(h, type, channel_id, format, data, existing_emote) ==
    LET h1 == _setupChannel(h, channel_id, format)
    IN  IF existing_emote = NullEmote /\ data.isNull
        THEN [h |-> h1, emote |-> NullEmote, threw |-> TRUE]
        ELSE LET emote == IF existing_emote # NullEmote THEN existing_emote ELSE NewEmote(h1, type, channel_id, data.id, data)
                 h2 == IF existing_emote # NullEmote THEN h1 ELSE [h1 EXCEPT !.nextInst = @ + 1]
                 h3 == IF emote.code \in DOMAIN h2.colls[EmotesRef + 1] THEN h2 ELSE CollectionSet(h2, EmotesRef, emote.code, emote)
                 h4 == CollectionSet(h3, h3.channels[channel_id].emotes, emote.code, emote)
             IN  [h |-> h4, emote |-> emote, threw |-> FALSE]

\* The cache body without `channel.emotes.set(emote.code, emote)`
CacheEmoteGlobalOnly(h, type, channel_id, format, data, existing_emote) ==
    LET h1 == _setupChannel(h, channel_id, format)
    IN  IF existing_emote = NullEmote /\ data.isNull
        THEN [h |-> h1, emote |-> NullEmote, threw |-> TRUE]
        ELSE LET emote == IF existing_emote # NullEmote THEN existing_emote ELSE NewEmote(h1, type, channel_id, data.id, data)
                 h2 == IF existing_emote # NullEmote THEN h1 ELSE [h1 EXCEPT !.nextInst = @ + 1]
                 h3 == CollectionSet(h2, EmotesRef, emote.code, emote)
             IN  [h |-> h3, emote |-> emote, threw |-> FALSE]

\* The body shared by the four _cache*Emote methods (lines 311-341): set up
\* the channel, take the existing emote or construct one, set it in
\* this.emotes and in channel.emotes. Constructing from null data throws at
\* `data.id`, after the channel was set up.
CacheEmote(h, type, channel_id, format, data, existing_emote) ==
    LET h1 == _setupChannel(h, channel_id, format)
    IN  IF existing_emote = NullEmote /\ data.isNull
        THEN [h |-> h1, emote |-> NullEmote, threw |-> TRUE]
        ELSE LET emote == IF existing_emote # NullEmote THEN existing_emote ELSE NewEmote(h1, type, channel_id, data.id, data)
                 h2 == IF existing_emote # NullEmote THEN h1 ELSE [h1 EXCEPT !.nextInst = @ + 1]
                 h3 == CollectionSet(h2, EmotesRef, emote.code, emote)
                 h4 == CollectionSet(h3, h3.channels[channel_id].emotes, emote.code, emote)
             IN  [h |-> h4, emote |-> emote, threw |-> FALSE]

_cacheTwitchEmote(h, channel_id, data, existing_emote) == CacheEmote(h, "twitch", channel_id, "null", data, existing_emote)

\* _cacheBTTVEmote that hands back a copy of the emote it cached
_cacheBTTVEmoteCopy(h, channel_id, data, existing_emote) == [CacheEmote(h, "bttv", channel_id, "null", data, existing_emote) EXCEPT !.emote.inst = @ + 100]

_cacheBTTVEmote(h, channel_id, data, existing_emote) == CacheEmote(h, "bttv", channel_id, "null", data, existing_emote)

\* _cacheFFZEmote that leaves a code alone once it is cached
_cacheFFZEmoteIfAbsent(h, channel_id, data, existing_emote) ==
    IF ~data.isNull /\ data.code \in DOMAIN h.colls[EmotesRef + 1]
    THEN [h |-> _setupChannel(h, channel_id, "null"), emote |-> h.colls[EmotesRef + 1][data.code], threw |-> FALSE]
    ELSE CacheEmote(h, "ffz", channel_id, "null", data, existing_emote)

_cacheFFZEmote(h, channel_id, data, existing_emote) == CacheEmote(h, "ffz", channel_id, "null", data, existing_emote)

_cacheSevenTVEmote(h, channel_id, data, format, existing_emote) == CacheEmote(h, "7tv", channel_id, format, data, existing_emote)

----------------------------------------------------------------------------
(* Provider payloads *)

\* null where an object is expected (raw emote data, or the data passed by
\* fromObject together with an existing emote)
NullData == [isNull |-> TRUE, code |-> "", id |-> 0]

\* All sequences over S of length at most n
SeqsUpTo(S, n) == UNION {[1..k -> S] : k \in 0..n}

\* Provider ids are distinct within one payload: the element at position i
\* of a list gets id base + i.
NumberFrom(list, base) == [i \in 1..Len(list) |-> IF list[i].isNull THEN list[i] ELSE [list[i] EXCEPT !.id = base + i]]

\* What an adapter hands to its fetch: null, or the raw emotes (for FFZ an
\* object holding the regular emotes and the modifiers).
RawNull == [isNull |-> TRUE, emotes |-> <<>>, modifiers |-> <<>>]

RawList(list) == [isNull |-> FALSE, emotes |-> list, modifiers |-> <<>>]

\* `emotes.length > 0 ? emotes : null` (lines 98, 137, 198, 201-204)
NonEmptyOrNull(list) == IF Len(list) > 0 THEN RawList(list) ELSE RawNull

\* BTTV: a raw emote is {id, code, ...}; an element of the list may be null.
BTTVElems == {[isNull |-> FALSE, code |-> c, id |-> 0] : c \in Codes} \cup {NullData}

\* A list that may be absent from the response object
Field(present, list) == [present |-> present, list |-> list]

\* The global endpoint answers with an array, the channel endpoint with an
\* object holding channelEmotes and sharedEmotes; the body may also be null.
BTTVGlobalData == {[isNull |-> FALSE, isArray |-> TRUE, list |-> NumberFrom(l, 0), channelEmotes |-> Field(FALSE, <<>>), sharedEmotes |-> Field(FALSE, <<>>)] : l \in SeqsUpTo(BTTVElems, MaxLen)}

\* The two lists of a channel response, MaxLen raw emotes in all. A list
\* is absent only where it would be empty.
BTTVPairs == {x \in SeqsUpTo(BTTVElems, MaxLen) \X SeqsUpTo(BTTVElems, MaxLen) \X {<<TRUE, TRUE>>, <<FALSE, FALSE>>} : Len(x[1]) + Len(x[2]) <= MaxLen /\ (x[3][1] \/ x[1] = <<>>) /\ (x[3][2] \/ x[2] = <<>>)}

BTTVChannelData == {[isNull |-> FALSE, isArray |-> FALSE, list |-> <<>>, channelEmotes |-> Field(x[3][1], NumberFrom(x[1], 0)), sharedEmotes |-> Field(x[3][2], NumberFrom(x[2], 10))] : x \in BTTVPairs}

BTTVNullData == [isNull |-> TRUE, isArray |-> FALSE, list |-> <<>>, channelEmotes |-> Field(FALSE, <<>>), sharedEmotes |-> Field(FALSE, <<>>)]

\* What axios.get does: it throws, or it answers with a status and a body.
NoBody == [isNull |-> TRUE]

HttpThrow == [kind |-> "throw", status |-> 0, data |-> NoBody]

Http(status, data) == [kind |-> "http", status |-> status, data |-> data]

StatusOk == 200

Responses(bodies) == {HttpThrow} \cup {Http(404, NoBody)} \cup {Http(StatusOk, d) : d \in bodies}

BTTVResponses(endpoint) == Responses((IF endpoint = "global" THEN BTTVGlobalData ELSE BTTVChannelData) \cup {BTTVNullData})

\* FFZ: a raw emote is {id, name, modifier, ...}; the body holds `sets`,
\* each set a list `emoticons`. A body may lack `sets`.
FFZElems == {[isNull |-> FALSE, code |-> c, id |-> 0, modifier |-> FALSE] : c \in Codes} \cup {[isNull |-> FALSE, code |-> "a", id |-> 0, modifier |-> TRUE]} \cup {[isNull |-> TRUE, code |-> "", id |-> 0, modifier |-> FALSE]}

\* One set, or two sets, MaxLen raw emotes in all
FFZSetLists == {<<NumberFrom(l, 0)>> : l \in SeqsUpTo(FFZElems, MaxLen)} \cup {<<NumberFrom(x[1], 0), NumberFrom(x[2], 10)>> : x \in {y \in SeqsUpTo(FFZElems, MaxLen) \X SeqsUpTo(FFZElems, MaxLen) : Len(y[1]) >= 1 /\ Len(y[2]) >= 1 /\ Len(y[1]) + Len(y[2]) <= MaxLen}} \cup {<<>>}

FFZData == {[hasSets |-> TRUE, sets |-> s] : s \in FFZSetLists} \cup {[hasSets |-> FALSE, sets |-> <<>>]}

FFZResponses == Responses(FFZData)

\* 7TV: an element is {name, data: {id, name, ...}}; it may lack `data`.
\* The nested name may differ from the element's name.
SevenTVElems == {[name |-> c, hasData |-> TRUE, data |-> [isNull |-> FALSE, code |-> n, id |-> 0]] : c \in Codes, n \in {"a"}} \cup {[name |-> c, hasData |-> FALSE, data |-> NullData] : c \in {"a"}}

NumberSevenTV(list) == [i \in 1..Len(list) |-> IF list[i].hasData THEN [list[i] EXCEPT !.data.id = i] ELSE list[i]]

\* The global endpoint answers with an emote set ({emotes}), the channel
\* endpoint with a user, whose emote_set may be absent.
SevenTVGlobalData == {[isNull |-> FALSE, hasEmotes |-> TRUE, emotes |-> NumberSevenTV(l), hasEmoteSet |-> FALSE, emoteSetEmotes |-> <<>>] : l \in SeqsUpTo(SevenTVElems, MaxLen)}

SevenTVChannelData == {[isNull |-> FALSE, hasEmotes |-> FALSE, emotes |-> <<>>, hasEmoteSet |-> TRUE, emoteSetEmotes |-> NumberSevenTV(l)] : l \in SeqsUpTo(SevenTVElems, MaxLen)} \cup {[isNull |-> FALSE, hasEmotes |-> FALSE, emotes |-> <<>>, hasEmoteSet |-> FALSE, emoteSetEmotes |-> <<>>]}

SevenTVNullData == [isNull |-> TRUE, hasEmotes |-> FALSE, emotes |-> <<>>, hasEmoteSet |-> FALSE, emoteSetEmotes |-> <<>>]

SevenTVResponses(endpoint) == Responses((IF endpoint = "global" THEN SevenTVGlobalData ELSE SevenTVChannelData) \cup {SevenTVNullData})

\* Twitch: the api client rejects, or resolves to a list of {id, name, formats}.
TwitchElems == {[name |-> c, id |-> 0] : c \in Codes}

NumberTwitch(list) == [i \in 1..Len(list) |-> [list[i] EXCEPT !.id = i]]

TwitchResponses == {[kind |-> "throw", list |-> <<>>]} \cup {[kind |-> "ok", list |-> NumberTwitch(l)] : l \in SeqsUpTo(TwitchElems, MaxLen)}

----------------------------------------------------------------------------
(* The adapters: from a response to the raw emotes, or null *)

\* The endpoint an adapter requests (lines 92-96, 109, 151, 187-189)
Endpoint(id) == IF Falsy(id) THEN "global" ELSE "channel"

\* _getRawTwitchEmotes, after the api client resolved (line 98)
_getRawTwitchEmotes(response) == NonEmptyOrNull(response.list)

\* _getRawBTTVEmotes without the sharedEmotes of a channel body
_getRawBTTVEmotesOwnOnly(response) ==
    IF response.kind = "throw" THEN RawNull
    ELSE IF response.status # StatusOk THEN RawNull
    ELSE IF response.data.isNull THEN RawNull
    ELSE IF response.data.isArray THEN NonEmptyOrNull(response.data.list)
    ELSE NonEmptyOrNull(IF response.data.channelEmotes.present THEN response.data.channelEmotes.list ELSE <<>>)

\* _getRawBTTVEmotes, after axios.get settled (lines 111-141). Reading a
\* property of a null body throws inside the try.
_getRawBTTVEmotes(response) ==
    IF response.kind = "throw" THEN RawNull
    ELSE IF response.status # StatusOk THEN RawNull
    ELSE IF response.data.isNull THEN RawNull
    ELSE IF response.data.isArray THEN NonEmptyOrNull(response.data.list)
    ELSE LET own == IF response.data.channelEmotes.present THEN response.data.channelEmotes.list ELSE <<>>
             shared == IF response.data.sharedEmotes.present THEN response.data.sharedEmotes.list ELSE <<>>
         IN  NonEmptyOrNull(own \o shared)

RECURSIVE Flatten(_)
\* The emoticons of all sets, in the order of the two for-loops (lines 162-171)
Flatten(sets) == IF sets = <<>> THEN <<>> ELSE Head(sets) \o Flatten(Tail(sets))

IsModifier(e) == e.modifier
IsRegular(e) == ~e.modifier

\* _getRawFFZEmotes, after axios.get settled (lines 153-177). Object.keys of
\* a missing `sets` and `emote.modifier` of a null element throw inside the
\* try. The result is an object, whatever the two lists hold.
_getRawFFZEmotes(response) ==
    IF response.kind = "throw" THEN RawNull
    ELSE IF response.status # StatusOk THEN RawNull
    ELSE IF ~response.data.hasSets THEN RawNull
    ELSE LET all == Flatten(response.data.sets)
         IN  IF \E i \in 1..Len(all) : all[i].isNull THEN RawNull
             ELSE [isNull |-> FALSE, emotes |-> SelectSeq(all, IsRegular), modifiers |-> SelectSeq(all, IsModifier)]

\* _getRawSevenTVEmotes, after axios.get settled (lines 191-209)
_getRawSevenTVEmotes(response) ==
    IF response.kind = "throw" THEN RawNull
    ELSE IF response.status # StatusOk THEN RawNull
    ELSE IF response.data.isNull THEN RawNull
    ELSE IF response.data.hasEmotes THEN NonEmptyOrNull(response.data.emotes)
    ELSE IF response.data.hasEmoteSet /\ Len(response.data.emoteSetEmotes) > 0 THEN RawList(response.data.emoteSetEmotes)
    ELSE RawNull

----------------------------------------------------------------------------
(* The fetch operations, from the raw emotes on *)

ResultNone == [kind |-> "none", ref |-> 0]
ResultNull == [kind |-> "null", ref |-> 0]
ResultColl(ref) == [kind |-> "coll", ref |-> ref]
ResultList == [kind |-> "list", ref |-> 0]

\* Where a suspended loop goes on: the Collection it fills and the next
\* element. A call that never entered its loop has none.
NoResume == [ref |-> 0, at |-> 0]

\* How a handler run ends: the heap it leaves, and the settled promise
Fulfilled(h, result) == [h |-> h, state |-> "fulfilled", result |-> result, error |-> "", resume |-> NoResume]
Rejected(h, error) == [h |-> h, state |-> "rejected", result |-> ResultNone, error |-> error, resume |-> NoResume]

\* A run that ends at an await inside the loop: the promise stays pending
Suspended(h, channelEmotes, i) == [h |-> h, state |-> "pending", result |-> ResultNone, error |-> "", resume |-> [ref |-> channelEmotes, at |-> i]]

\* A loop body with an await: control returns to the event loop between
\* two elements
LoopAwaitsEachElement == TRUE

\* The bodies of the loops of fetchTwitchEmotes (lines 223-230) and
\* fetchBTTVEmotes (lines 246-249) hold no await: _cache*Emote and
\* Collection.set are synchronous, the loop runs to its end in one step.
LoopAwaits == FALSE

RECURSIVE TwitchLoop(_, _, _, _, _)
\* for (const emote of rawEmotes) (lines 223-230)
TwitchLoop(h, channelEmotes, channel, rawEmotes, i) ==
    IF i > Len(rawEmotes) THEN Fulfilled(h, ResultColl(channelEmotes))
    ELSE LET emote == rawEmotes[i]
             r == _cacheTwitchEmote(h, channel, [isNull |-> FALSE, code |-> emote.name, id |-> emote.id], NullEmote)
             h1 == CollectionSet(r.h, channelEmotes, r.emote.code, r.emote)
         IN  IF LoopAwaits /\ i < Len(rawEmotes) THEN Suspended(h1, channelEmotes, i + 1)
             ELSE TwitchLoop(h1, channelEmotes, channel, rawEmotes, i + 1)

\* fetchTwitchEmotes after `await this._getRawTwitchEmotes(channel)` (lines 220-232)
fetchTwitchEmotes(h, channel, rawEmotes) ==
    IF rawEmotes.isNull THEN Fulfilled(h, ResultNull)
    ELSE TwitchLoop(NewCollection(h), NewRef(h), channel, rawEmotes.emotes, 1)

RECURSIVE BTTVLoop(_, _, _, _, _)
\* for (const data of rawEmotes) (lines 246-249)
BTTVLoop(h, channelEmotes, channel, rawEmotes, i) ==
    IF i > Len(rawEmotes) THEN Fulfilled(h, ResultColl(channelEmotes))
    ELSE LET r == _cacheBTTVEmote(h, channel, rawEmotes[i], NullEmote)
         IN  IF r.threw THEN Rejected(r.h, "TypeError")
             ELSE LET h1 == CollectionSet(r.h, channelEmotes, r.emote.code, r.emote)
                  IN  IF LoopAwaits /\ i < Len(rawEmotes) THEN Suspended(h1, channelEmotes, i + 1)
                      ELSE BTTVLoop(h1, channelEmotes, channel, rawEmotes, i + 1)

\* fetchBTTVEmotes after `await this._getRawBTTVEmotes(channel)` (lines 243-251)
fetchBTTVEmotes(h, channel, rawEmotes) ==
    IF rawEmotes.isNull THEN Fulfilled(h, ResultNull)
    ELSE BTTVLoop(NewCollection(h), NewRef(h), channel, rawEmotes.emotes, 1)

RECURSIVE FFZModifierLoop(_, _, _, _, _)
\* The modifier loop that also puts each modifier in the returned mapping
FFZModifierLoopReturning(h, channelEmotes, channel, modifiers, i) ==
    IF i > Len(modifiers) THEN Fulfilled(h, ResultColl(channelEmotes))
    ELSE LET r == _cacheFFZEmote(h, channel, modifiers[i], NullEmote)
         IN  FFZModifierLoop(CollectionSet(r.h, channelEmotes, r.emote.code, r.emote), channelEmotes, channel, modifiers, i + 1)

\* for (const modifier of modifiers) (lines 279-283)
FFZModifierLoop(h, channelEmotes, channel, modifiers, i) ==
    IF i > Len(modifiers) THEN Fulfilled(h, ResultColl(channelEmotes))
    ELSE FFZModifierLoop(_cacheFFZEmote(h, channel, modifiers[i], NullEmote).h, channelEmotes, channel, modifiers, i + 1)

RECURSIVE FFZLoop(_, _, _, _, _, _)
\* for (const data of emotes) (lines 273-276), then the modifiers
FFZLoop(h, channelEmotes, channel, emotes, modifiers, i) ==
    IF i > Len(emotes) THEN FFZModifierLoop(h, channelEmotes, channel, modifiers, 1)
    ELSE LET r == _cacheFFZEmote(h, channel, emotes[i], NullEmote)
         IN  FFZLoop(CollectionSet(r.h, channelEmotes, r.emote.code, r.emote), channelEmotes, channel, emotes, modifiers, i + 1)

\* fetchFFZEmotes after `await this._getRawFFZEmotes(...)` (lines 268-285)
fetchFFZEmotes(h, channel, rawEmotes) ==
    IF rawEmotes.isNull THEN Fulfilled(h, ResultNull)
    ELSE FFZLoop(NewCollection(h), NewRef(h), channel, rawEmotes.emotes, rawEmotes.modifiers, 1)

\* `data.data.name = data.name` (line 302): the element's name wins
TrustName(data) == [data.data EXCEPT !.code = data.name]

RECURSIVE SevenTVLoop(_, _, _, _, _, _)
\* for (const data of rawEmotes) (lines 300-305). Setting `name` on a
\* missing `data` throws before anything is cached for the element.
SevenTVLoop(h, channelEmotes, channel, format, rawEmotes, i) ==
    IF i > Len(rawEmotes) THEN Fulfilled(h, ResultColl(channelEmotes))
    ELSE IF ~rawEmotes[i].hasData THEN Rejected(h, "TypeError")
    ELSE LET r == _cacheSevenTVEmote(h, channel, TrustName(rawEmotes[i]), format, NullEmote)
         IN  SevenTVLoop(CollectionSet(r.h, channelEmotes, r.emote.code, r.emote), channelEmotes, channel, format, rawEmotes, i + 1)

\* fetchSevenTVEmotes that fills and returns the channel's own Collection
fetchSevenTVEmotesShared(h, channel, format, rawEmotes) ==
    IF rawEmotes.isNull THEN Fulfilled(h, ResultNull)
    ELSE SevenTVLoop(_setupChannel(h, channel, format), _setupChannel(h, channel, format).channels[channel].emotes, channel, format, rawEmotes.emotes, 1)

\* fetchSevenTVEmotes that sets the channel and its format up before it
\* looks at the raw emotes
fetchSevenTVEmotesSetupFirst(h, channel, format, rawEmotes) ==
    IF rawEmotes.isNull THEN Fulfilled(_setupChannel(h, channel, format), ResultNull)
    ELSE SevenTVLoop(NewCollection(_setupChannel(h, channel, format)), NewRef(_setupChannel(h, channel, format)), channel, format, rawEmotes.emotes, 1)

\* fetchSevenTVEmotes after `await this._getRawSevenTVEmotes(channel)` (lines 296-307)
fetchSevenTVEmotes(h, channel, format, rawEmotes) ==
    IF rawEmotes.isNull THEN Fulfilled(h, ResultNull)
    ELSE SevenTVLoop(NewCollection(h), NewRef(h), channel, format, rawEmotes.emotes, 1)

----------------------------------------------------------------------------
(* fromObject *)

KnownTypes == {"bttv", "ffz", "7tv", "twitch"}

\* The plain descriptors handed to fromObject: {type, channel_id, code, id,
\* imageType}; channel_id and imageType may be missing (undefined).
Descriptor(type, channel_id, code, id, imageType) == [type |-> type, channel_id |-> channel_id, code |-> code, id |-> id, imageType |-> imageType]

Descriptors == {
    Descriptor("bttv", "null", "a", 1, "undefined"),
    Descriptor("twitch", "ch1", "a", 2, "undefined"),
    Descriptor("ffz", "undefined", "b", 3, "undefined"),
    Descriptor("7tv", "ch1", "b", 4, "avif"),
    Descriptor("unknown", "ch1", "b", 5, "undefined")}

\* The lists handed to fromObject: at most MaxObj descriptors, no descriptor twice
DescriptorLists == {l \in SeqsUpTo(Descriptors, MaxObj) : \A i, j \in 1..Len(l) : i # j => l[i] # l[j]}

\* emoteClass.fromObject(emoteObject, channel): a new instance of the class
\* with the descriptor's code and id
EmoteFromObject(h, emoteObject) == [inst |-> h.nextInst, code |-> emoteObject.code, id |-> emoteObject.id, type |-> emoteObject.type, channel |-> emoteObject.channel_id]

\* classMap[type].cache(emoteObject, channel_id, existing_emote) (lines 350-376)
ClassMapCache(h, emoteObject, emote) ==
    IF emoteObject.type = "bttv" THEN _cacheBTTVEmote(h, emoteObject.channel_id, NullData, emote)
    ELSE IF emoteObject.type = "ffz" THEN _cacheFFZEmote(h, emoteObject.channel_id, NullData, emote)
    ELSE IF emoteObject.type = "7tv" THEN _cacheSevenTVEmote(h, emoteObject.channel_id, NullData, emoteObject.imageType, emote)
    ELSE _cacheTwitchEmote(h, emoteObject.channel_id, NullData, emote)

RECURSIVE fromObjectLoop(_, _, _, _)

\* The loop with the channel set up before the type is checked
fromObjectLoopSetupFirst(h, emotes, emotesArray, i) ==
    IF i > Len(emotesArray) THEN [h |-> h, state |-> "returned", emotes |-> emotes, error |-> ""]
    ELSE LET emoteObject == emotesArray[i]
             h1 == _setupChannel(h, emoteObject.channel_id, IF emoteObject.type = "7tv" THEN emoteObject.imageType ELSE "null")
         IN  IF emoteObject.type \notin KnownTypes
             THEN [h |-> h1, state |-> "threw", emotes |-> emotes, error |-> "UnknownType"]
             ELSE LET emote == EmoteFromObject(h1, emoteObject)
                      h2 == [h1 EXCEPT !.nextInst = @ + 1]
                      r == ClassMapCache(h2, emoteObject, emote)
                  IN  fromObjectLoop(r.h, Append(emotes, emote), emotesArray, i + 1)

\* for (const emoteObject of emotesArray) (lines 377-394)
fromObjectLoop(h, emotes, emotesArray, i) ==
    IF i > Len(emotesArray) THEN [h |-> h, state |-> "returned", emotes |-> emotes, error |-> ""]
    ELSE LET emoteObject == emotesArray[i]
         IN  IF emoteObject.type \notin KnownTypes
             THEN [h |-> h, state |-> "threw", emotes |-> emotes, error |-> "UnknownType"]
             ELSE LET h1 == _setupChannel(h, emoteObject.channel_id, IF emoteObject.type = "7tv" THEN emoteObject.imageType ELSE "null")
                      emote == EmoteFromObject(h1, emoteObject)
                      h2 == [h1 EXCEPT !.nextInst = @ + 1]
                      r == ClassMapCache(h2, emoteObject, emote)
                  IN  fromObjectLoop(r.h, Append(emotes, emote), emotesArray, i + 1)

\* fromObject(emotesArray) (lines 348-396)
fromObject(h, emotesArray) == fromObjectLoop(h, <<>>, emotesArray, 1)

----------------------------------------------------------------------------
(* State and steps *)

\* The arguments a caller passes for `channel` and for `format`
ChannelArgs == {"undefined", "null", "ch1"}
FormatArgs == {"undefined", "avif"}

NoResponse == [kind |-> "none"]

\* One call: its operation and arguments, the endpoint it requested (if
\* any), the response it got (for fromObject: the descriptor list) and its
\* promise (for fromObject: how the call ended).
Call(op, channel, format, endpoint, state) == [op |-> op, channel |-> channel, format |-> format, endpoint |-> endpoint, response |-> NoResponse, state |-> state, result |-> ResultNone, error |-> "", resume |-> NoResume]

\* What one handler run did: the call it belongs to, the heap it found,
\* the Collection.set calls it made, and the emotes fromObject pushed.
Run(call, before, log, emotes) == [call |-> call, before |-> before, log |-> log, emotes |-> emotes]

Snapshot == [colls |-> colls, channels |-> channels]

\* Nothing was rendered yet
NoRender == [kind |-> "none", type |-> "", input |-> <<>>, size |-> 0, out |-> "", count |-> 0]

Init ==
    /\ apiClient \in BOOLEAN
    /\ colls = <<EmptyColl>>
    /\ channels = EmptyColl
    /\ ffzModifiersFetched = FALSE
    /\ nextInst = 1
    /\ calls = <<>>
    /\ last = Run(0, [colls |-> <<EmptyColl>>, channels |-> EmptyColl], <<>>, <<>>)
    /\ rendered = NoRender

TheHeap == Heap(colls, channels, nextInst, <<>>)

\* A handler run ended: the heap it left, the promise it settled
Finish(i, out, response) ==
    /\ colls' = out.h.colls
    /\ channels' = out.h.channels
    /\ nextInst' = out.h.nextInst
    /\ calls' = [calls EXCEPT ![i].response = response, ![i].state = out.state, ![i].result = out.result, ![i].error = out.error, ![i].resume = out.resume]
    /\ last' = Run(i, Snapshot, out.h.log, <<>>)
    /\ UNCHANGED <<apiClient, ffzModifiersFetched, rendered>>

\* A call of an async fetch: it runs to the first await and returns a
\* pending promise.
Begin(op, channel, format, endpoint) ==
    /\ Len(calls) < MaxCalls
    /\ calls' = Append(calls, Call(op, channel, format, endpoint, "pending"))
    /\ UNCHANGED <<apiClient, colls, channels, ffzModifiersFetched, nextInst, last, rendered>>

\* fetchTwitchEmotes without the check of this.apiClient
CallFetchTwitchEmotesNoCheck(arg) == Begin("twitch", Default(arg, "null"), "", Endpoint(Default(arg, "null")))

\* fetchTwitchEmotes(channel = null) up to its await (lines 218-219, 86-96):
\* without an api client no request is made and the awaited promise is
\* already rejected.
CallFetchTwitchEmotes(arg) ==
    LET channel == Default(arg, "null")
    IN  Begin("twitch", channel, "", IF apiClient THEN Endpoint(channel) ELSE "none")

\* fetchBTTVEmotes(channel = null) up to its await (lines 241-242, 108-112)
CallFetchBTTVEmotes(arg) ==
    LET channel == Default(arg, "null")
    IN  Begin("bttv", channel, "", Endpoint(channel))

\* fetchFFZEmotes(channel = null) up to its await (lines 259-266, 150-154)
CallFetchFFZEmotes(arg) ==
    LET channel == Default(arg, "null")
    IN  Begin("ffz", channel, "", Endpoint(channel))

\* fetchSevenTVEmotes(channel = null, format = "webp") up to its await
\* (lines 294-295, 186-192)
CallFetchSevenTVEmotes(arg, fmt) ==
    LET channel == Default(arg, "null")
    IN  Begin("7tv", channel, Default(fmt, "webp"), Endpoint(channel))

Pending(i, op) == i \in 1..Len(calls) /\ calls[i].op = op /\ calls[i].state = "pending"

\* The call's loop was suspended at an await and goes on from there
Resumed(i) == calls[i].resume # NoResume

\* The rejection of _getRawTwitchEmotes (line 88) reaches the caller's promise.
TwitchMissingCredentials(i) ==
    /\ Pending(i, "twitch")
    /\ calls[i].endpoint = "none"
    /\ Finish(i, Rejected(TheHeap, "MissingCredentials"), NoResponse)

\* The api client settles; fetchTwitchEmotes runs to its end (or, had its
\* loop an await, to that await, and from there in a later step).
TwitchSettle(i, response) ==
    /\ Pending(i, "twitch")
    /\ calls[i].endpoint # "none"
    /\ \/ /\ response.kind = "throw"
          /\ ~Resumed(i)
          /\ Finish(i, Rejected(TheHeap, "ApiError"), response)
       \/ /\ response.kind = "ok"
          /\ Resumed(i) => response = calls[i].response
          /\ Finish(i, IF Resumed(i)
                       THEN TwitchLoop(TheHeap, calls[i].resume.ref, calls[i].channel, _getRawTwitchEmotes(response).emotes, calls[i].resume.at)
                       ELSE fetchTwitchEmotes(TheHeap, calls[i].channel, _getRawTwitchEmotes(response)), response)

\* axios.get settles; fetchBTTVEmotes runs to its end (or, had its loop an
\* await, to that await, and from there in a later step).
BTTVSettle(i, response) ==
    /\ Pending(i, "bttv")
    /\ Resumed(i) => response = calls[i].response
    /\ Finish(i, IF Resumed(i)
                 THEN BTTVLoop(TheHeap, calls[i].resume.ref, calls[i].channel, _getRawBTTVEmotes(response).emotes, calls[i].resume.at)
                 ELSE fetchBTTVEmotes(TheHeap, calls[i].channel, _getRawBTTVEmotes(response)), response)

\* axios.get settles; fetchFFZEmotes runs to its end.
FFZSettle(i, response) ==
    /\ Pending(i, "ffz")
    /\ Finish(i, fetchFFZEmotes(TheHeap, calls[i].channel, _getRawFFZEmotes(response)), response)

\* axios.get settles; fetchSevenTVEmotes runs to its end.
SevenTVSettle(i, response) ==
    /\ Pending(i, "7tv")
    /\ Finish(i, fetchSevenTVEmotes(TheHeap, calls[i].channel, calls[i].format, _getRawSevenTVEmotes(response)), response)

\* fromObject(emotesArray): synchronous, one step
CallFromObject(emotesArray) ==
    /\ Len(calls) < MaxCalls
    /\ LET out == fromObject(TheHeap, emotesArray)
       IN  /\ colls' = out.h.colls
           /\ channels' = out.h.channels
           /\ nextInst' = out.h.nextInst
           /\ calls' = Append(calls, [Call("fromObject", "", "", "none", out.state) EXCEPT !.response = emotesArray, !.result = ResultList, !.error = out.error])
           /\ last' = Run(Len(calls) + 1, Snapshot, out.h.log, out.emotes)
    /\ UNCHANGED <<apiClient, ffzModifiersFetched, rendered>>

Next ==
    \/ \E arg \in ChannelArgs : CallFetchTwitchEmotes(arg)
    \/ \E arg \in ChannelArgs : CallFetchBTTVEmotes(arg)
    \/ \E arg \in ChannelArgs : CallFetchFFZEmotes(arg)
    \/ \E arg \in ChannelArgs, fmt \in FormatArgs : CallFetchSevenTVEmotes(arg, fmt)
    \/ \E i \in 1..Len(calls) : TwitchMissingCredentials(i)
    \/ \E i \in 1..Len(calls), response \in TwitchResponses : TwitchSettle(i, response)
    \/ \E i \in 1..Len(calls) : \E response \in BTTVResponses(calls[i].endpoint) : BTTVSettle(i, response)
    \/ \E i \in 1..Len(calls), response \in FFZResponses : FFZSettle(i, response)
    \/ \E i \in 1..Len(calls) : \E response \in SevenTVResponses(calls[i].endpoint) : SevenTVSettle(i, response)
    \/ \E emotesArray \in DescriptorLists : CallFromObject(emotesArray)

Spec == Init /\ [][Next]_vars

----------------------------------------------------------------------------
(* Reading the state *)

\* this.emotes
Emotes == Deref(colls, EmotesRef)

\* this.channels.get(ch).emotes
ChannelEmotes(ch) == Deref(colls, channels[ch].emotes)

CallIds == 1..Len(calls)

FetchOps == {"twitch", "bttv", "ffz", "7tv"}

Settled(i) == calls[i].state # "pending"

\* A fetchTwitchEmotes call on a fetcher constructed without credentials
NoCredentialsCall(i) == calls[i].op = "twitch" /\ ~apiClient

----------------------------------------------------------------------------
(* Rendering: Constants.js, TwitchEmote.toLink and EmoteParser.parse *)

MaxText == 6        \* characters in one parsed text
MaxSize == 2        \* the largest size index handed to toLink
MaxRenders == 1     \* toLink and parse calls made on one fetcher

\* A text is a sequence of characters; a JavaScript string is what the
\* characters spell.
Chars == {":", "a"}

Texts == SeqsUpTo(Chars, MaxText)

RECURSIVE Join(_)
Join(text) == IF text = <<>> THEN "" ELSE Head(text) \o Join(Tail(text))

\* The ids toLink is asked about
TwitchIds == {1, 2, 25, 58127}

Sizes == 0..MaxSize

\* Twitch.CDN with the size index as it is
TwitchCDNUnshifted(id, size) == "https://static-cdn.jtvnw.net/emoticons/v2/" \o ToString(id) \o "/default/dark/" \o ToString(size) \o ".0"

\* Constants.Twitch.CDN(id, size) (Constants.js lines 3-6)
TwitchCDN(id, size) == "https://static-cdn.jtvnw.net/emoticons/v2/" \o ToString(id) \o "/default/dark/" \o ToString(size + 1) \o ".0"

\* TwitchEmote.toLink(size): the CDN link of the emote's id
toLink(emote, size) == TwitchCDN(emote.id, size)

TemplateTypes == {"html", "markdown", "bbcode", "plain"}

\* The markdown template without the title
TemplatesNoTitle(type, name, link, size) ==
    IF type = "html" THEN "<img alt=\"" \o name \o "\" title=\"" \o name \o "\" class=\"twitch-emote twitch-emote-" \o ToString(size) \o "\" src=\"" \o link \o "\">"
    ELSE IF type = "markdown" THEN "![" \o name \o "](" \o link \o ")"
    ELSE IF type = "bbcode" THEN "[img]" \o link \o "[/img]"
    ELSE link

\* Constants.Templates (Constants.js lines 26-31) with {name}, {link} and
\* {size} filled in
Templates(type, name, link, size) ==
    IF type = "html" THEN "<img alt=\"" \o name \o "\" title=\"" \o name \o "\" class=\"twitch-emote twitch-emote-" \o ToString(size) \o "\" src=\"" \o link \o "\">"
    ELSE IF type = "markdown" THEN "![" \o name \o "](" \o link \o " \"" \o name \o "\")"
    ELSE IF type = "bbcode" THEN "[img]" \o link \o "[/img]"
    ELSE link

\* The position of the first ":" of text at or after `from`; 0 if none
FindColon(text, from) == IF \E k \in from..Len(text) : text[k] = ":" THEN CHOOSE k \in from..Len(text) : text[k] = ":" /\ \A n \in from..(k - 1) : text[n] # ":" ELSE 0

RECURSIVE ParseFrom(_, _, _, _, _)
\* text.replace(/:(.+?):/g, ...) from position p on: the next match starts
\* at the first ":" that has a ":" two or more characters later and ends
\* at the first such ":"; a match whose code is in the index is replaced
\* by the filled template, any other match is kept; the scan goes on
\* behind the match.
ParseFrom(index, type, text, size, p) ==
    LET s == FindColon(text, p)
        e == IF s = 0 THEN 0 ELSE FindColon(text, s + 2)
    IN  IF e = 0 THEN Join(SubSeq(text, p, Len(text)))
        ELSE LET id == Join(SubSeq(text, s + 1, e - 1))
                 res == IF id \in DOMAIN index THEN Templates(type, index[id].code, toLink(index[id], size), size) ELSE Join(SubSeq(text, s, e))
             IN  Join(SubSeq(text, p, s - 1)) \o res \o ParseFrom(index, type, text, size, e + 1)

\* EmoteParser.parse(text), at the default size, against this.fetcher.emotes
parse(type, text) == ParseFrom(Deref(colls, EmotesRef), type, text, 0, 1)

\* The string a toLink or parse call built, and how many were built so far
Rendered(kind, type, input, size, out) == [kind |-> kind, type |-> type, input |-> input, size |-> size, out |-> out, count |-> rendered.count + 1]

\* emote.toLink(size) on a Twitch emote with the given id
CallToLink(id, size) ==
    /\ rendered.count < MaxRenders
    /\ rendered' = Rendered("link", "", <<id>>, size, toLink([NullEmote EXCEPT !.id = id, !.type = "twitch"], size))
    /\ UNCHANGED <<apiClient, colls, channels, ffzModifiersFetched, nextInst, calls, last>>

\* new EmoteParser(fetcher, {type}).parse(text)
CallParse(type, text) ==
    /\ rendered.count < MaxRenders
    /\ rendered' = Rendered("parse", type, text, 0, parse(type, text))
    /\ UNCHANGED <<apiClient, colls, channels, ffzModifiersFetched, nextInst, calls, last>>

\* A fetcher with credentials fetches the global Twitch emotes; links are
\* built and texts are parsed at any time.
InitRender == Init /\ apiClient

NextRender ==
    \/ CallFetchTwitchEmotes("undefined")
    \/ \E i \in 1..Len(calls), response \in TwitchResponses : TwitchSettle(i, response)
    \/ \E id \in TwitchIds, size \in Sizes : CallToLink(id, size)
    \/ \E type \in TemplateTypes, text \in Texts : CallParse(type, text)

SpecRender == InitRender /\ [][NextRender]_vars

----------------------------------------------------------------------------

(* C1, C2: fetchTwitchEmotes without credentials *)

\* C1: on a fetcher without credentials every fetchTwitchEmotes call, for
\* the global channel and for a channel id alike, makes no request to the
\* Twitch client and, once its promise has settled, has failed with the
\* MissingCredentials error.
C1_MissingCredentials ==
    \A i \in CallIds : NoCredentialsCall(i) =>
        /\ calls[i].endpoint = "none"
        /\ calls[i].response = NoResponse
        /\ Settled(i) => calls[i].state = "rejected" /\ calls[i].error = "MissingCredentials" /\ calls[i].result = ResultNone

\* A global call and a channel call have both failed with MissingCredentials.
C1_Witness ==
    /\ ~apiClient
    /\ \E i, j \in CallIds :
        /\ calls[i].op = "twitch" /\ calls[i].channel = "null" /\ calls[i].error = "MissingCredentials"
        /\ calls[j].op = "twitch" /\ calls[j].channel = "ch1" /\ calls[j].error = "MissingCredentials"

\* C2: the MissingCredentials failure is synchronous: when the call has
\* returned control to its caller the failure has already happened, that
\* is, a call without credentials is never left with a pending promise.
C2_SynchronousFailure == \A i \in CallIds : NoCredentialsCall(i) => calls[i].state # "pending"

----------------------------------------------------------------------------
(* C3: the channel indices and the global index *)

\* C3 as stated: for every channel ch and every code c of ch.emotes, the
\* global index holds under c the identical instance ch.emotes holds.
C3_IdenticalEverywhere ==
    \A ch \in DOMAIN channels : \A c \in Keys(ChannelEmotes(ch)) :
        c \in Keys(Emotes) /\ Emotes[c] = ChannelEmotes(ch)[c]

\* C3 amended: for every channel ch and every code c of ch.emotes, the
\* global index contains c, and it holds the identical instance ch.emotes
\* holds whenever the emote it holds under c belongs to ch (ch is the
\* channel of the most recent write of c).
C3_SubsetAndOwnerIdentical ==
    \A ch \in DOMAIN channels : \A c \in Keys(ChannelEmotes(ch)) :
        /\ c \in Keys(Emotes)
        /\ Emotes[c].channel = ch => Emotes[c] = ChannelEmotes(ch)[c]

\* Two channels hold the same code, and the global index holds the
\* instance of one of them only.
C3_Witness ==
    \E ch, other \in DOMAIN channels : \E c \in Keys(ChannelEmotes(ch)) \cap Keys(ChannelEmotes(other)) :
        /\ ch # other
        /\ Emotes[c] = ChannelEmotes(ch)[c]
        /\ Emotes[c] # ChannelEmotes(other)[c]

----------------------------------------------------------------------------
(* Reading a response *)

\* The raw emotes a BTTV body lists: the array, or the channel-owned list
\* followed by the shared list
BTTVListed(response) == IF response.data.isArray THEN response.data.list ELSE response.data.channelEmotes.list \o response.data.sharedEmotes.list

\* The raw emotes a 7TV body lists
SevenTVListed(response) == IF response.data.hasEmotes THEN response.data.emotes ELSE response.data.emoteSetEmotes

\* The raw emotes of all sets of an FFZ body, as <<set, position>> pairs
FFZPositions(response) == {p \in (1..Len(response.data.sets)) \X (1..MaxLen + 1) : p[2] <= Len(response.data.sets[p[1]])}

\* The transport failed: axios.get threw, or the status is not 200.
TransportFailure(response) == response.kind = "throw" \/ response.status # 200

\* The body cannot be parsed: it is null, it lacks `sets`, an element of
\* the emote list is null or lacks `data`.
ParseFailure(op, response) ==
    /\ response.kind = "http" /\ response.status = 200
    /\ \/ op = "bttv" /\ (response.data.isNull \/ \E k \in 1..Len(BTTVListed(response)) : BTTVListed(response)[k].isNull)
       \/ op = "ffz" /\ (~response.data.hasSets \/ \E p \in FFZPositions(response) : response.data.sets[p[1]][p[2]].isNull)
       \/ op = "7tv" /\ (response.data.isNull \/ \E k \in 1..Len(SevenTVListed(response)) : ~SevenTVListed(response)[k].hasData)

\* The provider call succeeded and the payload holds no emote at all.
SucceededEmpty(op, response) ==
    \/ op = "twitch" /\ response.kind = "ok" /\ response.list = <<>>
    \/ /\ op \in {"bttv", "ffz", "7tv"} /\ response.kind = "http" /\ response.status = 200
       /\ \/ op = "bttv" /\ ~response.data.isNull /\ BTTVListed(response) = <<>>
          \/ op = "ffz" /\ response.data.hasSets /\ FFZPositions(response) = {}
          \/ op = "7tv" /\ ~response.data.isNull /\ (response.data.hasEmotes \/ response.data.hasEmoteSet) /\ SevenTVListed(response) = <<>>

----------------------------------------------------------------------------
(* C4: re-fetching an unchanged payload *)

\* The call of the most recent handler run re-fetches call j: the same
\* provider, channel and format, and the same response, after j settled.
Refetches(i, j) ==
    /\ i # j /\ Settled(i) /\ Settled(j)
    /\ calls[i].op \in FetchOps /\ calls[i].op = calls[j].op
    /\ calls[i].channel = calls[j].channel /\ calls[i].format = calls[j].format
    /\ calls[i].response # NoResponse /\ calls[i].response = calls[j].response

\* C4: when the most recent handler run was a re-fetch of an unchanged
\* payload, it left the key set (hence the size) of the channel's index
\* and of the global index as it found them.
C4_RefetchKeepsKeys ==
    \A i, j \in CallIds : (last.call = i /\ Refetches(i, j)) =>
        /\ DOMAIN channels = DOMAIN last.before.channels
        /\ Keys(Emotes) = Keys(Deref(last.before.colls, EmotesRef))
        /\ \A ch \in DOMAIN channels : Keys(ChannelEmotes(ch)) = Keys(Deref(last.before.colls, last.before.channels[ch].emotes))

\* A re-fetch of a payload of two codes returned its mapping.
C4_Witness ==
    \E i, j \in CallIds :
        /\ last.call = i /\ Refetches(i, j)
        /\ calls[i].result.kind = "coll" /\ calls[j].result.kind = "coll"
        /\ Cardinality(Keys(ChannelEmotes(calls[i].channel))) = 2

----------------------------------------------------------------------------
(* C5, C6: failures and empty results *)

\* C5: a BTTV, FFZ or 7TV fetch never fails (no exception reaches the
\* caller), and every transport failure and every parse failure of the
\* payload makes it return null.
C5_FailuresYieldNull ==
    \A i \in CallIds : (calls[i].op \in {"bttv", "ffz", "7tv"} /\ Settled(i)) =>
        /\ calls[i].state = "fulfilled"
        /\ (TransportFailure(calls[i].response) \/ ParseFailure(calls[i].op, calls[i].response)) => calls[i].result = ResultNull

\* C6: for each of the four providers, a provider call that succeeds with
\* zero emotes makes the fetch return null.
C6_EmptyYieldsNull ==
    \A i \in CallIds : (calls[i].op \in FetchOps /\ Settled(i) /\ SucceededEmpty(calls[i].op, calls[i].response)) =>
        calls[i].state = "fulfilled" /\ calls[i].result = ResultNull

----------------------------------------------------------------------------
(* C7: the two lists of a BTTV channel payload *)

\* A BTTV fetch returned a mapping for a body with both lists.
BTTVMerged(i) ==
    /\ calls[i].op = "bttv" /\ calls[i].state = "fulfilled" /\ calls[i].result.kind = "coll"
    /\ ~calls[i].response.data.isArray
    /\ calls[i].response.data.channelEmotes.present /\ calls[i].response.data.sharedEmotes.present

\* The mapping a fulfilled fetch returned
Returned(i) == Deref(colls, calls[i].result.ref)

\* C7 as stated: the returned mapping holds an entry for every emote of
\* both lists, also when the lists repeat a code.
C7_NoEmoteLost ==
    \A i \in CallIds : BTTVMerged(i) =>
        \A k \in 1..Len(BTTVListed(calls[i].response)) :
            \E c \in Keys(Returned(i)) : Returned(i)[c].id = BTTVListed(calls[i].response)[k].id

\* C7 amended: the returned mapping holds an entry for every code of both
\* lists and for no other; where a code occurs more than once, its entry
\* is the emote of the last occurrence (channel-owned list first, then
\* shared list).
C7_NoCodeLost ==
    \A i \in CallIds : BTTVMerged(i) =>
        LET all == BTTVListed(calls[i].response)
        IN  /\ Keys(Returned(i)) = {all[k].code : k \in 1..Len(all)}
            /\ \A k \in 1..Len(all) : (\A n \in (k + 1)..Len(all) : all[n].code # all[k].code) =>
                   /\ Returned(i)[all[k].code].id = all[k].id
                   /\ Returned(i)[all[k].code].code = all[k].code

\* The channel-owned list and the shared list hold the same code.
C7_Witness ==
    \E i \in CallIds :
        /\ BTTVMerged(i)
        /\ Len(calls[i].response.data.channelEmotes.list) = 1
        /\ Len(calls[i].response.data.sharedEmotes.list) = 1
        /\ calls[i].response.data.channelEmotes.list[1].code = calls[i].response.data.sharedEmotes.list[1].code

----------------------------------------------------------------------------
(* C8: fromObject and an unrecognized provider tag *)

Unrecognized(d) == d.type \notin {"bttv", "ffz", "7tv", "twitch"}

\* The position of the first descriptor with an unrecognized tag
FirstUnrecognized(list) == CHOOSE k \in 1..Len(list) : Unrecognized(list[k]) /\ \A p \in 1..(k - 1) : ~Unrecognized(list[p])

BeforeEmotes == Deref(last.before.colls, EmotesRef)

\* The index channel ch had when the most recent handler run began
BeforeChannelEmotes(ch) == IF ch \in DOMAIN last.before.channels THEN Deref(last.before.colls, last.before.channels[ch].emotes) ELSE EmptyColl

\* C8: fromObject fails with UnknownProviderType exactly on a list with an
\* unrecognized tag. With the first such descriptor at position k, every
\* descriptor before k is inserted in the global index and in its
\* channel's index, its channel exists, and nothing else has changed: no
\* channel and no entry comes from the descriptor at k or a later one.
C8_PartialProgressKept ==
    \A i \in CallIds : calls[i].op = "fromObject" =>
        LET list == calls[i].response
        IN  /\ (\E p \in 1..Len(list) : Unrecognized(list[p])) <=> (calls[i].state = "threw" /\ calls[i].error = "UnknownType")
            /\ (last.call = i /\ calls[i].state = "threw") =>
                 LET k == FirstUnrecognized(list)
                     done == 1..(k - 1)
                 IN  /\ Len(last.emotes) = k - 1
                     /\ \A p \in done :
                          /\ last.emotes[p].code = list[p].code /\ last.emotes[p].id = list[p].id
                          /\ list[p].channel_id \in DOMAIN channels
                          /\ list[p].code \in Keys(Emotes)
                          /\ list[p].code \in Keys(ChannelEmotes(list[p].channel_id))
                          /\ (\A q \in done : q > p => list[q].code # list[p].code) => Emotes[list[p].code] = last.emotes[p]
                          /\ (\A q \in done : q > p => (list[q].code # list[p].code \/ list[q].channel_id # list[p].channel_id)) => ChannelEmotes(list[p].channel_id)[list[p].code] = last.emotes[p]
                     /\ DOMAIN channels = DOMAIN last.before.channels \cup {list[p].channel_id : p \in done}
                     /\ Keys(Emotes) = Keys(BeforeEmotes) \cup {list[p].code : p \in done}
                     /\ \A c \in Keys(BeforeEmotes) \ {list[p].code : p \in done} : Emotes[c] = BeforeEmotes[c]
                     /\ \A ch \in DOMAIN channels :
                          /\ Keys(ChannelEmotes(ch)) = Keys(BeforeChannelEmotes(ch)) \cup {list[p].code : p \in {q \in done : list[q].channel_id = ch}}
                          /\ ch \notin {list[p].channel_id : p \in done} => channels[ch] = last.before.channels[ch] /\ ChannelEmotes(ch) = BeforeChannelEmotes(ch)

\* fromObject failed at the second of three descriptors: the first one's
\* channel was created, the third one's channel was not.
C8_Witness ==
    \E i \in CallIds :
        /\ last.call = i /\ calls[i].op = "fromObject" /\ calls[i].state = "threw"
        /\ Len(calls[i].response) = 3 /\ FirstUnrecognized(calls[i].response) = 2
        /\ calls[i].response[1].channel_id \in DOMAIN channels \ DOMAIN last.before.channels
        /\ calls[i].response[3].channel_id \notin DOMAIN channels
        /\ calls[i].response[1].code \in Keys(Emotes)

----------------------------------------------------------------------------
(* C9, C10: what a fetch returns and what it writes *)

\* The number of raw emotes with code c a response lists
Occurrences(op, response, c) ==
    IF op = "twitch" THEN Cardinality({k \in 1..Len(response.list) : response.list[k].name = c})
    ELSE IF op = "bttv" THEN Cardinality({k \in 1..Len(BTTVListed(response)) : BTTVListed(response)[k].code = c})
    ELSE IF op = "ffz" THEN Cardinality({p \in FFZPositions(response) : response.data.sets[p[1]][p[2]].code = c})
    ELSE Cardinality({k \in 1..Len(SevenTVListed(response)) : SevenTVListed(response)[k].name = c})

\* The codes of a response's raw emotes
PayloadCodes(op, response) == {c \in Codes : Occurrences(op, response, c) > 0}

\* The codes of a response's raw emotes that are no FFZ modifiers
RegularCodes(op, response) ==
    IF op = "ffz" THEN {c \in Codes : \E p \in FFZPositions(response) : response.data.sets[p[1]][p[2]].code = c /\ ~response.data.sets[p[1]][p[2]].modifier}
    ELSE PayloadCodes(op, response)

\* A fetch returned a mapping.
ReturnedMapping(i) == calls[i].op \in FetchOps /\ calls[i].state = "fulfilled" /\ calls[i].result.kind = "coll"

\* The mapping call i returned is a Collection of its own, it has not
\* changed in the most recent handler run (unless that was the run that
\* built it), and the codes in `cached` are in the global index and in
\* the channel's index.
FreshStableCached(i, cached) ==
    /\ calls[i].result.ref # EmotesRef
    /\ \A ch \in DOMAIN channels : channels[ch].emotes # calls[i].result.ref
    /\ \A j \in CallIds : (j # i /\ ReturnedMapping(j)) => calls[j].result.ref # calls[i].result.ref
    /\ last.call # i => Returned(i) = Deref(last.before.colls, calls[i].result.ref)
    /\ \A c \in cached :
        /\ c \in Keys(Emotes)
        /\ calls[i].channel \in DOMAIN channels
        /\ c \in Keys(ChannelEmotes(calls[i].channel))

\* C9 as stated: the mapping a fetch returns holds exactly the codes of
\* the call's payload; it is fresh, later calls do not change it, and the
\* payload's codes are in the global index and in the channel's index.
C9_ReturnsPayloadCodes ==
    \A i \in CallIds : ReturnedMapping(i) =>
        /\ Keys(Returned(i)) = PayloadCodes(calls[i].op, calls[i].response)
        /\ FreshStableCached(i, PayloadCodes(calls[i].op, calls[i].response))

\* C9 amended: the mapping a fetch returns holds exactly the codes of the
\* payload's emotes, for FFZ of its regular (non-modifier) emotes only; it
\* is fresh, later calls do not change it, and all codes of the payload,
\* modifiers included, are in the global index and in the channel's index.
C9_ReturnsRegularCodes ==
    \A i \in CallIds : ReturnedMapping(i) =>
        /\ Keys(Returned(i)) = RegularCodes(calls[i].op, calls[i].response)
        /\ \A c \in Keys(Returned(i)) : Returned(i)[c].code = c
        /\ FreshStableCached(i, PayloadCodes(calls[i].op, calls[i].response))

\* An FFZ fetch returned a mapping without its payload's modifier, and a
\* later handler run has written to the cache since.
C9_Witness ==
    \E i \in CallIds :
        /\ ReturnedMapping(i) /\ calls[i].op = "ffz"
        /\ Keys(Returned(i)) # PayloadCodes(calls[i].op, calls[i].response)
        /\ Keys(Returned(i)) # {}
        /\ last.call # i /\ last.log # <<>>

\* The number of set calls on Collection ref with key c in the most recent run
Writes(ref, c) == Cardinality({k \in 1..Len(last.log) : last.log[k] = <<ref, c>>})

\* The number of set calls on the index of channel ch with key c in the
\* most recent run
ChannelWrites(ch, c) == IF ch \in DOMAIN channels THEN Writes(channels[ch].emotes, c) ELSE 0

\* The most recent handler run completed fetch i.
LastCompletedFetch(i) == last.call = i /\ ReturnedMapping(i)

\* C10 as stated: a completed fetch has assigned the global entry and the
\* channel's entry of every code of its payload exactly once.
C10_WrittenOnce ==
    \A i \in CallIds : LastCompletedFetch(i) =>
        \A c \in PayloadCodes(calls[i].op, calls[i].response) :
            /\ Writes(EmotesRef, c) = 1
            /\ ChannelWrites(calls[i].channel, c) = 1

\* C10 amended: a completed fetch has assigned the global entry and the
\* channel's entry of a code once for each raw emote of the payload with
\* that code: exactly once where the code occurs once, and not at all
\* where it does not occur.
C10_WrittenOncePerOccurrence ==
    \A i \in CallIds : LastCompletedFetch(i) =>
        \A c \in Codes :
            /\ Writes(EmotesRef, c) = Occurrences(calls[i].op, calls[i].response, c)
            /\ ChannelWrites(calls[i].channel, c) = Occurrences(calls[i].op, calls[i].response, c)

\* An FFZ fetch completed whose payload lists one code as a regular emote
\* and as a modifier; another code occurs once.
C10_Witness ==
    \E i \in CallIds :
        /\ LastCompletedFetch(i) /\ calls[i].op = "ffz"
        /\ Writes(EmotesRef, "a") = 2
        /\ \E p, q \in FFZPositions(calls[i].response) :
            /\ calls[i].response.data.sets[p[1]][p[2]].modifier
            /\ ~calls[i].response.data.sets[q[1]][q[2]].modifier
            /\ calls[i].response.data.sets[p[1]][p[2]].code = calls[i].response.data.sets[q[1]][q[2]].code

----------------------------------------------------------------------------
(* C11: two fetches in flight at once *)

\* The Emote instances held by some Collection when the most recent
\* handler run began
BeforeInsts == UNION {{last.before.colls[r][k].inst : k \in DOMAIN last.before.colls[r]} : r \in 1..Len(last.before.colls)}

\* Emote e was constructed by the most recent handler run, for its call
CreatedByLastRun(e) ==
    /\ e.inst \notin BeforeInsts
    /\ e.type = calls[last.call].op
    /\ e.channel = calls[last.call].channel

\* C11: when two fetches have both returned their mappings and both
\* payloads hold code c, then, right after the run that processed the
\* later response, the global index maps c to an Emote that run
\* constructed; if both fetches target the same channel, that channel's
\* index maps c to the same Emote. This holds whichever response was
\* processed first.
C11_LastWriteWins ==
    \A i, j \in CallIds : (i # j /\ LastCompletedFetch(i) /\ ReturnedMapping(j)) =>
        \A c \in PayloadCodes(calls[i].op, calls[i].response) \cap PayloadCodes(calls[j].op, calls[j].response) :
            /\ c \in Keys(Emotes)
            /\ CreatedByLastRun(Emotes[c])
            /\ calls[i].channel = calls[j].channel => ChannelEmotes(calls[i].channel)[c] = Emotes[c]

\* The fetch called first was processed last (so both were in flight at
\* once); the two are of different providers, target the same channel,
\* and the code was cached by the other fetch before this run.
C11_Witness ==
    \E i, j \in CallIds :
        /\ i < j /\ LastCompletedFetch(i) /\ ReturnedMapping(j)
        /\ calls[i].op # calls[j].op /\ calls[i].channel = calls[j].channel
        /\ \E c \in PayloadCodes(calls[i].op, calls[i].response) \cap PayloadCodes(calls[j].op, calls[j].response) :
            /\ c \in Keys(BeforeEmotes) /\ BeforeEmotes[c].type = calls[j].op
            /\ Emotes[c].type = calls[i].op

----------------------------------------------------------------------------
(* C12: the life of a channel *)

\* The raw emotes the adapter made of the response of fetch i
RawOf(i) ==
    IF calls[i].op = "twitch" THEN (IF calls[i].response.kind = "ok" THEN _getRawTwitchEmotes(calls[i].response) ELSE RawNull)
    ELSE IF calls[i].op = "bttv" THEN _getRawBTTVEmotes(calls[i].response)
    ELSE IF calls[i].op = "ffz" THEN _getRawFFZEmotes(calls[i].response)
    ELSE _getRawSevenTVEmotes(calls[i].response)

\* The run of fetch i got as far as a _cache*Emote call: there are raw
\* emotes, and (7TV) the first of them has its `data`.
ReachedCache(i) ==
    /\ ~RawOf(i).isNull
    /\ calls[i].op = "ffz" => RawOf(i).emotes # <<>> \/ RawOf(i).modifiers # <<>>
    /\ calls[i].op = "7tv" => RawOf(i).emotes[1].hasData

\* The channel ids the most recent handler run referenced in a cache step
LastReferenced ==
    IF calls[last.call].op = "fromObject" THEN {calls[last.call].response[p].channel_id : p \in 1..Len(last.emotes)}
    ELSE IF Settled(last.call) /\ ReachedCache(last.call) THEN {calls[last.call].channel}
    ELSE {}

\* C12: a handler run removes no channel; a channel that existed before
\* the run is the same Channel after it (the same emotes Collection, with
\* all the codes it held); the channels the run created are exactly the
\* ids it referenced in a cache step that had no channel before; each new
\* channel has a Collection of its own.
C12_ChannelLifecycle ==
    /\ DOMAIN last.before.channels \subseteq DOMAIN channels
    /\ \A ch \in DOMAIN last.before.channels :
        /\ channels[ch].emotes = last.before.channels[ch].emotes
        /\ Keys(BeforeChannelEmotes(ch)) \subseteq Keys(ChannelEmotes(ch))
    /\ last.call \in CallIds => DOMAIN channels \ DOMAIN last.before.channels = LastReferenced \ DOMAIN last.before.channels
    /\ \A ch \in DOMAIN channels \ DOMAIN last.before.channels : channels[ch].emotes >= Len(last.before.colls)
    /\ \A ch, other \in DOMAIN channels : ch # other => channels[ch].emotes # channels[other].emotes

\* A run referenced a channel that held a code already, added a code to
\* it, and created another channel.
C12_Witness ==
    /\ last.call \in CallIds
    /\ \E ch \in DOMAIN last.before.channels :
        /\ Keys(BeforeChannelEmotes(ch)) # {}
        /\ Keys(ChannelEmotes(ch)) # Keys(BeforeChannelEmotes(ch))
    /\ DOMAIN channels # DOMAIN last.before.channels

----------------------------------------------------------------------------
(* C13: the global channel *)

\* A channel id that is null or absent
NullOrAbsent(id) == id \in {"null", "undefined"}

\* C13: there is one global channel, keyed null. A completed fetch that
\* requested a global endpoint has its payload's codes in the index of
\* the channel null; every descriptor without channel id (null or absent)
\* that fromObject cached is in the index of the channel null; and no
\* other channel holds an emote cached without channel id.
C13_SingleGlobalChannel ==
    /\ \A i \in CallIds : (LastCompletedFetch(i) /\ calls[i].endpoint = "global") =>
        /\ calls[i].channel = "null"
        /\ \A c \in PayloadCodes(calls[i].op, calls[i].response) : "null" \in DOMAIN channels /\ c \in Keys(ChannelEmotes("null"))
    /\ \A i \in CallIds : (last.call = i /\ calls[i].op = "fromObject") =>
        \A p \in 1..Len(last.emotes) : NullOrAbsent(calls[i].response[p].channel_id) =>
            "null" \in DOMAIN channels /\ calls[i].response[p].code \in Keys(ChannelEmotes("null"))
    /\ \A ch \in DOMAIN channels \ {"null"} : \A c \in Keys(ChannelEmotes(ch)) : ~NullOrAbsent(ChannelEmotes(ch)[c].channel)

----------------------------------------------------------------------------
(* C14: the Twitch CDN link *)

\* The decimal spelling of the ids in use
IdText(id) == CASE id = 1 -> "1" [] id = 2 -> "2" [] id = 3 -> "3" [] id = 25 -> "25" [] id = 58127 -> "58127"

\* The size component of the CDN path for a size index: the index plus
\* one, followed by ".0"
SizeText(size) == CASE size = 0 -> "1.0" [] size = 1 -> "2.0" [] size = 2 -> "3.0" [] size = 3 -> "4.0" [] size = 4 -> "5.0"

\* C14: the link toLink built for Twitch emote id i at size s is
\* https://static-cdn.jtvnw.net/emoticons/v2/<i>/default/dark/<s+1>.0;
\* id 25 at size 2 gives .../25/default/dark/3.0.
C14_SizeShiftedByOne ==
    rendered.kind = "link" =>
        /\ rendered.out = "https://static-cdn.jtvnw.net/emoticons/v2/" \o IdText(rendered.input[1]) \o "/default/dark/" \o SizeText(rendered.size)
        /\ (rendered.input[1] = 25 /\ rendered.size = 2) => rendered.out = "https://static-cdn.jtvnw.net/emoticons/v2/25/default/dark/3.0"
        /\ (rendered.input[1] = 25 /\ rendered.size = 0) => rendered.out = "https://static-cdn.jtvnw.net/emoticons/v2/25/default/dark/1.0"

\* toLink(2) was called on the emote with id 25.
C14_Witness == rendered.kind = "link" /\ rendered.input[1] = 25 /\ rendered.size = 2

----------------------------------------------------------------------------
(* C15: EmoteParser.parse *)

\* Text has a match of :(.+?): at or after position `from`
HasMatch(text, from) == \E s, e \in from..Len(text) : text[s] = ":" /\ text[e] = ":" /\ e >= s + 2

\* The first match: it starts at the first ":" with a ":" two or more
\* characters later and ends at the first such ":"
FirstMatch(text) ==
    LET s == CHOOSE x \in 1..Len(text) : text[x] = ":" /\ (\E e \in (x + 2)..Len(text) : text[e] = ":") /\ \A y \in 1..(x - 1) : ~(text[y] = ":" /\ \E e \in (y + 2)..Len(text) : text[e] = ":")
        e == CHOOSE x \in (s + 2)..Len(text) : text[x] = ":" /\ \A y \in (s + 2)..(x - 1) : text[y] # ":"
    IN  <<s, e>>

\* The rendering of a Twitch emote at the default size in a template
Rendering(type, emote) ==
    LET link == "https://static-cdn.jtvnw.net/emoticons/v2/" \o IdText(emote.id) \o "/default/dark/1.0"
    IN  CASE type = "markdown" -> "![" \o emote.code \o "](" \o link \o " \"" \o emote.code \o "\")"
          [] type = "bbcode" -> "[img]" \o link \o "[/img]"
          [] type = "plain" -> link
          [] type = "html" -> "<img alt=\"" \o emote.code \o "\" title=\"" \o emote.code \o "\" class=\"twitch-emote twitch-emote-0\" src=\"" \o link \o "\">"

\* What parse makes of the span of a match: the rendering of the emote
\* whose code the match names, or the span itself
Replacement(index, type, text, s, e) ==
    LET id == Join(SubSeq(text, s + 1, e - 1))
    IN  IF id \in DOMAIN index THEN Rendering(type, index[id]) ELSE Join(SubSeq(text, s, e))

\* The result r of parse is right for the global index it was run against.
ParsedRight(r, index) ==
    /\ ~HasMatch(r.input, 1) => r.out = Join(r.input)
    /\ HasMatch(r.input, 1) =>
        LET s == FirstMatch(r.input)[1]
            e == FirstMatch(r.input)[2]
            rest == SubSeq(r.input, e + 1, Len(r.input))
        IN  /\ ~HasMatch(rest, 1) => r.out = Join(SubSeq(r.input, 1, s - 1)) \o Replacement(index, r.type, r.input, s, e) \o Join(rest)
            /\ (HasMatch(rest, 1) /\ ~HasMatch(rest, FirstMatch(rest)[2] + 1)) =>
                 r.out = Join(SubSeq(r.input, 1, s - 1)) \o Replacement(index, r.type, r.input, s, e)
                         \o Join(SubSeq(rest, 1, FirstMatch(rest)[1] - 1)) \o Replacement(index, r.type, rest, FirstMatch(rest)[1], FirstMatch(rest)[2])
                         \o Join(SubSeq(rest, FirstMatch(rest)[2] + 1, Len(rest)))

\* C15: a parse step returns the text unchanged where nothing matches,
\* keeps a match whose code is not in the global index, delimiters
\* included, replaces a match whose code is in the global index by the
\* emote's rendering in the selected template, and changes nothing of the
\* fetcher; the markdown rendering of CoolCat, id 58127, is
\* ![CoolCat](https://static-cdn.jtvnw.net/emoticons/v2/58127/default/dark/1.0 "CoolCat").
C15_ParseSubstitutes ==
    /\ [](Templates("markdown", "CoolCat", toLink([NullEmote EXCEPT !.id = 58127, !.code = "CoolCat"], 0), 0) = "![CoolCat](https://static-cdn.jtvnw.net/emoticons/v2/58127/default/dark/1.0 \"CoolCat\")")
    /\ [][(rendered' # rendered /\ rendered'.kind = "parse") =>
            /\ UNCHANGED <<apiClient, colls, channels, ffzModifiersFetched, nextInst, calls, last>>
            /\ ParsedRight(rendered', Emotes)]_vars

\* "a:a:a" was parsed into markdown while the global index held code a
\* with id 1: the match was replaced, the text around it kept.
C15_Witness ==
    /\ rendered.kind = "parse" /\ rendered.type = "markdown"
    /\ rendered.input = <<"a", ":", "a", ":", "a">>
    /\ rendered.out = "a![a](https://static-cdn.jtvnw.net/emoticons/v2/1/default/dark/1.0 \"a\")a"

----------------------------------------------------------------------------
(* C16: FFZ modifiers *)

\* The raw emotes of an FFZ body that are modifiers, and those that are not
FFZModifiers(response) == {response.data.sets[p[1]][p[2]] : p \in {q \in FFZPositions(response) : response.data.sets[q[1]][q[2]].modifier}}

FFZRegulars(response) == {response.data.sets[p[1]][p[2]] : p \in {q \in FFZPositions(response) : ~response.data.sets[q[1]][q[2]].modifier}}

\* C16: the run that completed an FFZ fetch has set every modifier of the
\* payload in the global index and in the channel's index under its code,
\* and left both holding a modifier under that code; the mapping the
\* fetch returned holds regular emotes of the payload only, one under
\* each regular code, and no modifier.
C16_ModifiersCachedNotReturned ==
    \A i \in CallIds : (ReturnedMapping(i) /\ calls[i].op = "ffz") =>
        /\ \A c \in Keys(Returned(i)) : \E e \in FFZRegulars(calls[i].response) : e.code = c /\ e.id = Returned(i)[c].id
        /\ \A c \in Keys(Returned(i)) : \A m \in FFZModifiers(calls[i].response) : m.id # Returned(i)[c].id
        /\ Keys(Returned(i)) = {e.code : e \in FFZRegulars(calls[i].response)}
        /\ last.call = i => \A m \in FFZModifiers(calls[i].response) :
            /\ Writes(EmotesRef, m.code) >= 1 /\ ChannelWrites(calls[i].channel, m.code) >= 1
            /\ \E n \in FFZModifiers(calls[i].response) : n.code = m.code /\ Emotes[m.code].id = n.id
            /\ Emotes[m.code].type = "ffz"
            /\ ChannelEmotes(calls[i].channel)[m.code] = Emotes[m.code]

\* An FFZ fetch completed whose payload holds a modifier and a regular
\* emote of another code: the modifier's code is cached, not returned.
C16_Witness ==
    \E i \in CallIds :
        /\ LastCompletedFetch(i) /\ calls[i].op = "ffz"
        /\ \E m \in FFZModifiers(calls[i].response) : m.code \in Keys(Emotes) \ Keys(Returned(i))
        /\ Keys(Returned(i)) # {}

----------------------------------------------------------------------------
(* C17: the insertions of one fetch *)

\* C17: a fetch whose response has arrived is no longer in flight: the
\* step that takes the response runs the fetch to its end, so a pending
\* call has written nothing. The run that completed a fetch made all the
\* set calls of its payload (three for each regular raw emote, two for
\* each FFZ modifier), and each of them on the global index, the index of
\* the call's channel or the call's own mapping.
C17_InsertsInOneStep ==
    /\ \A i \in CallIds : calls[i].state = "pending" => calls[i].response = NoResponse /\ ~Resumed(i)
    /\ \A i \in CallIds : LastCompletedFetch(i) =>
        /\ Len(last.log) = 3 * Len(RawOf(i).emotes) + 2 * Len(RawOf(i).modifiers)
        /\ \A k \in 1..Len(last.log) : last.log[k][1] \in {EmotesRef, channels[calls[i].channel].emotes, calls[i].result.ref}

\* A Twitch or BTTV fetch of two raw emotes completed while another
\* fetch, called before it, was still in flight.
C17_Witness ==
    \E i, j \in CallIds :
        /\ j < i /\ calls[j].state = "pending" /\ calls[j].op \in {"twitch", "bttv"}
        /\ LastCompletedFetch(i) /\ calls[i].op \in {"twitch", "bttv"}
        /\ Len(RawOf(i).emotes) = 2 /\ Len(last.log) = 6

----------------------------------------------------------------------------
(* C18: the global index and the channel indices *)

\* C18: the codes of the global index are the codes of all channel
\* indices together, and the Emote the global index holds under a code is
\* the one the index of that Emote's channel holds under it.
C18_GlobalIsUnionOfChannels ==
    /\ Keys(Emotes) = UNION {Keys(ChannelEmotes(ch)) : ch \in DOMAIN channels}
    /\ \A c \in Keys(Emotes) :
        /\ \E ch \in DOMAIN channels : c \in Keys(ChannelEmotes(ch)) /\ ChannelEmotes(ch)[c] = Emotes[c]
        /\ Emotes[c].channel \in DOMAIN channels
        /\ c \in Keys(ChannelEmotes(Emotes[c].channel))
        /\ ChannelEmotes(Emotes[c].channel)[c] = Emotes[c]

\* Two channels hold the same code with different instances, and one
\* channel lacks a code of the global index.
C18_Witness ==
    /\ Cardinality(Keys(Emotes)) = 2
    /\ \E ch, other \in DOMAIN channels : \E c \in Keys(ChannelEmotes(ch)) \cap Keys(ChannelEmotes(other)) :
        /\ ChannelEmotes(ch)[c] # ChannelEmotes(other)[c]
        /\ Keys(ChannelEmotes(other)) # Keys(Emotes)

----------------------------------------------------------------------------
(* C19: the returned mapping and the cache, at the return *)

\* Code c is the code of a modifier of the FFZ payload of call i.
ModifierCode(i, c) == calls[i].op = "ffz" /\ \E m \in FFZModifiers(calls[i].response) : m.code = c

\* C19 as stated: when a fetch returns its mapping, every entry of the
\* mapping is the instance the global index and the channel's index hold
\* under the entry's code.
C19_ReturnedIsCached ==
    \A i \in CallIds : LastCompletedFetch(i) =>
        \A c \in Keys(Returned(i)) :
            /\ Returned(i)[c] = Emotes[c]
            /\ Returned(i)[c] = ChannelEmotes(calls[i].channel)[c]

\* C19 amended: when a fetch returns its mapping, every entry of the
\* mapping is the instance the global index and the channel's index hold
\* under the entry's code, unless the payload is an FFZ payload with a
\* modifier of that code: then both indices hold that modifier, an
\* instance the mapping does not hold.
C19_ReturnedIsCachedUnlessModifier ==
    \A i \in CallIds : LastCompletedFetch(i) =>
        \A c \in Keys(Returned(i)) :
            /\ ~ModifierCode(i, c) =>
                /\ Returned(i)[c] = Emotes[c]
                /\ Returned(i)[c] = ChannelEmotes(calls[i].channel)[c]
            /\ ModifierCode(i, c) =>
                /\ Returned(i)[c] # Emotes[c]
                /\ ChannelEmotes(calls[i].channel)[c] = Emotes[c]
                /\ \E m \in FFZModifiers(calls[i].response) : m.code = c /\ m.id = Emotes[c].id

\* An FFZ fetch returned a mapping with a code that is also the code of a
\* modifier of its payload: the mapping holds the regular emote, the
\* indices hold the modifier.
C19_Witness ==
    \E i \in CallIds :
        /\ LastCompletedFetch(i)
        /\ \E c \in Keys(Returned(i)) :
            /\ ModifierCode(i, c)
            /\ Returned(i)[c].id # Emotes[c].id
            /\ Returned(i)[c].type = "ffz" /\ Emotes[c].type = "ffz"

----------------------------------------------------------------------------
(* C20: a fetch without emotes *)

\* The run that settled fetch i made it return null, or fail for missing
\* credentials.
LastEndedWithout(i) ==
    /\ last.call = i /\ calls[i].op \in FetchOps /\ Settled(i)
    /\ \/ calls[i].state = "fulfilled" /\ calls[i].result = ResultNull
       \/ calls[i].state = "rejected" /\ calls[i].error = "MissingCredentials"

\* C20: the run in which a fetch returns null, or fetchTwitchEmotes fails
\* for missing credentials, makes no set call and leaves every Collection
\* (the global index and every channel's index), the channel table with
\* every channel's format, and ffzModifiersFetched as they were; no
\* channel is created for the requested id.
C20_NothingChanges ==
    \A i \in CallIds : LastEndedWithout(i) =>
        /\ last.log = <<>>
        /\ colls = last.before.colls
        /\ channels = last.before.channels
        /\ ffzModifiersFetched = FALSE

\* A 7TV channel fetch whose payload has no emote_set returned null; the
\* cache held emotes, and the channel it asked for does not exist.
C20_Witness ==
    \E i \in CallIds :
        /\ LastEndedWithout(i) /\ calls[i].op = "7tv" /\ calls[i].endpoint = "channel"
        /\ calls[i].response.kind = "http" /\ calls[i].response.status = 200
        /\ ~calls[i].response.data.isNull /\ ~calls[i].response.data.hasEmoteSet
        /\ Keys(Emotes) # {}
        /\ calls[i].channel \notin DOMAIN channels

====
